---- MODULE Spec2Model ----
(***************************************************************************)
(* State-machine model of aws/resource_aws_lb.go (the aws_lb resource of   *)
(* terraform-provider-aws): the CustomizeDiff hook, the Create / Read /    *)
(* Update / Delete handlers and the two network-interface cleanup          *)
(* routines that Delete runs.  Every remote call is one step; its answer   *)
(* (success, error, record count) is an input of the step.                 *)
(***************************************************************************)
EXTENDS Integers, Sequences, FiniteSets, TLC

\* ------------------------------------------------------------------ bounds
\* most status reads one poll (waiter.LoadBalancerActive) performs
MaxPolls == 3
\* most load balancer records a CreateLoadBalancer answer carries
MaxRecords == 2
\* most network interfaces a DescribeNetworkInterfaces answer carries
MaxENIs == 1
\* most retried queries of waitForNLBNetworkInterfacesToDetach
MaxRetries == 1
\* the same two bounds for a Delete that is looked at on its own (DeleteSpec)
DeleteMaxENIs == 2
DeleteMaxRetries == 3

\* ------------------------------------------------- elbv2 enumeration values
LoadBalancerTypeEnumApplication == "application"
LoadBalancerTypeEnumNetwork == "network"
LoadBalancerTypeEnumGateway == "gateway"
LoadBalancerTypeEnum_Values ==
  {LoadBalancerTypeEnumApplication, LoadBalancerTypeEnumNetwork, LoadBalancerTypeEnumGateway}
IpAddressTypeIpv4 == "ipv4"
IpAddressTypeDualstack == "dualstack"

\* ------------------------------------------------------------- identities
\* An identity is a string, kept as the sequence of its "/" separators and
\* of the maximal slash-free pieces between them.  "" is the empty sequence.
NoId == << >>
LoadBalancerArn ==
  <<"arn:aws:elasticloadbalancing:us-east-1:123456789012:loadbalancer", "/",
    "app", "/", "my-lb", "/", "50dc6c495c0c9188">>
\* identities the passthrough importer can put in place: any string.  Beside
\* the ARN: "my-lb", "app/my-lb/50dc6c495c0c9188", the ARN cut after the name,
\* "app//50dc6c495c0c9188" and "app/my-lb/".
ImportIds ==
  {LoadBalancerArn, <<"my-lb">>, <<"app", "/", "my-lb", "/", "50dc6c495c0c9188">>,
   SubSeq(LoadBalancerArn, 1, 5), <<"app", "/", "/", "50dc6c495c0c9188">>,
   <<"app", "/", "my-lb", "/">>}

\* getLbNameFromArn with the regexp "([^/]+/[^/]+)$": two pieces
getLbNameFromArn_TwoPieces(arn) ==
  LET n == Len(arn) IN
  IF n >= 3 /\ arn[n] # "/" /\ arn[n-1] = "/" /\ arn[n-2] # "/"
  THEN [err |-> FALSE, name |-> SubSeq(arn, n-2, n)]
  ELSE [err |-> TRUE, name |-> << >>]

\* regexp "([^/]+/[^/]+/[^/]+)$": three non-empty slash-free pieces joined by
\* two slashes at the end of the string; the leftmost match starts at the
\* beginning of the third piece from the end.
getLbNameFromArn(arn) ==
  LET n == Len(arn) IN
  IF /\ n >= 5
     /\ arn[n] # "/" /\ arn[n-1] = "/" /\ arn[n-2] # "/"
     /\ arn[n-3] = "/" /\ arn[n-4] # "/"
  THEN [err |-> FALSE, name |-> SubSeq(arn, n-4, n)]
  ELSE [err |-> TRUE, name |-> << >>]

\* the pieces in which the text "arn:" occurs, and those that end with
\* ":loadbalancer" (in the ARN's first piece the former precedes the latter)
ArnPieces == {LoadBalancerArn[1]}

LoadBalancerPieces == {LoadBalancerArn[1]}

\* regexp `arn:.*:loadbalancer/(.*)`: "arn:", anything, then ":loadbalancer/";
\* the greedy ".*" takes the last ":loadbalancer/" of the string and the
\* submatch is all that follows it.  No match (or a nil arn) gives "".
lbSuffixFromARN(arn) ==
  LET ends == {i \in 1..(Len(arn) - 1) :
                 /\ arn[i] \in LoadBalancerPieces
                 /\ arn[i+1] = "/"
                 /\ \E j \in 1..i : arn[j] \in ArnPieces}
  IN IF ends = {} THEN << >>
     ELSE LET i == CHOOSE e \in ends : \A f \in ends : f <= e
          IN SubSeq(arn, i + 2, Len(arn))

\* --------------------------------------------------------- configurations
\* strconv.FormatBool and fmt.Sprintf("%t")
FormatBool(b) == IF b THEN "true" ELSE "false"

\* fmt.Sprintf("%d"): the decimal digits of a natural number
RECURSIVE FormatInt(_)
FormatInt(n) == IF n < 10 THEN <<n>> ELSE Append(FormatInt(n \div 10), n % 10)

\* the values of a resource that does not exist yet (all attributes null)
ZeroState ==
  [load_balancer_type |-> "", tags |-> {}, security_groups |-> {}, subnets |-> {},
   subnet_mapping |-> {}, arn_suffix |-> << >>,
   ip_address_type |-> "", access_logs |-> << >>, idle_timeout |-> 0,
   enable_http2 |-> FALSE, drop_invalid_header_fields |-> FALSE,
   enable_cross_zone_load_balancing |-> FALSE, enable_deletion_protection |-> FALSE]

\* settings of the attribute fields used by the declared configurations:
\* the schema defaults, everything away from the defaults with access logs
\* enabled, and a disabled access-log block with cross-zone balancing on
AttrProfiles ==
  { [access_logs |-> << >>, idle_timeout |-> 60, enable_http2 |-> TRUE,
     drop_invalid_header_fields |-> FALSE, enable_cross_zone_load_balancing |-> FALSE,
     enable_deletion_protection |-> FALSE],
    [access_logs |-> <<[enabled |-> TRUE, bucket |-> "b", prefix |-> "p"]>>,
     idle_timeout |-> 30, enable_http2 |-> FALSE,
     drop_invalid_header_fields |-> TRUE, enable_cross_zone_load_balancing |-> TRUE,
     enable_deletion_protection |-> TRUE],
    [access_logs |-> <<[enabled |-> FALSE, bucket |-> "", prefix |-> ""]>>,
     idle_timeout |-> 60, enable_http2 |-> TRUE,
     drop_invalid_header_fields |-> FALSE, enable_cross_zone_load_balancing |-> TRUE,
     enable_deletion_protection |-> FALSE] }

\* the subnet sets of the declared configurations
SubnetSets == {{"subnet-a"}, {"subnet-a", "subnet-b"}}

\* the planned values of the schema's fields that a configuration declares (the
\* subnets are declared as "subnets"; "subnet_mapping" is left to the provider)
Configs ==
  { [load_balancer_type |-> t, tags |-> tg, security_groups |-> sg, subnets |-> sn,
     ip_address_type |-> ip, access_logs |-> a.access_logs, idle_timeout |-> a.idle_timeout,
     enable_http2 |-> a.enable_http2,
     drop_invalid_header_fields |-> a.drop_invalid_header_fields,
     enable_cross_zone_load_balancing |-> a.enable_cross_zone_load_balancing,
     enable_deletion_protection |-> a.enable_deletion_protection] :
       t \in LoadBalancerTypeEnum_Values, tg \in {{}, {"env=prod"}},
       sg \in {{}, {"sg-1"}}, sn \in SubnetSets,
       ip \in {IpAddressTypeIpv4, IpAddressTypeDualstack}, a \in AttrProfiles }

VARIABLES
  id,          \* d.Id(): the identity kept in the state
  st,          \* the values of the prior state (the "old" side of a change)
  d,           \* the values the handler has written with d.Set
  cfg,         \* the planned values (the "new" side of a change; d.Get)
  planned,     \* a plan is waiting to be applied
  forceNew,    \* the plan marks "subnets" as requiring replacement
  isNew,       \* d.IsNewResource()
  op,          \* the handler the framework invoked
  pc,          \* position inside the handler
  calls,       \* remote calls issued since the framework invoked the handler
  updFrom,     \* Len(calls) when resourceAwsLbUpdate was entered
  lb,          \* the record a successful DescribeLoadBalancers returned
  polls,       \* status reads of the running poll
  enis,        \* network interfaces the last query of the cleanup found
  retries,     \* retried queries of the running cleanup wait
  cleanupErr,  \* error of cleanupLBNetworkInterfaces
  waitErr,     \* error of waitForNLBNetworkInterfacesToDetach
  ret          \* what the handler returned: "running", "nil" or the error

vars == <<id, st, d, cfg, planned, forceNew, isNew, op, pc, calls, updFrom,
          lb, polls, enis, retries, cleanupErr, waitErr, ret>>

\* a remote call as it is recorded: the API operation, what it carried, the
\* answer ("ok", "err", or what the answer said) and the records it returned
CallN(name, arg, ans, n) == [name |-> name, arg |-> arg, ans |-> ans, count |-> n]

Call(name, arg, ans) == CallN(name, arg, ans, 0)

Answer(ok) == IF ok THEN "ok" ELSE "err"

\* d.HasChange(key): the state's value and the planned value differ
Changed(o, n, key) == o[key] # n[key]

HasChange(key) == Changed(st, cfg, key)

Init ==
  /\ id = NoId
  /\ st = ZeroState
  /\ d = ZeroState
  /\ cfg = ZeroState
  /\ planned = FALSE
  /\ forceNew = FALSE
  /\ isNew = FALSE
  /\ op = "none"
  /\ pc = "idle"
  /\ calls = << >>
  /\ updFrom = 0
  /\ lb = ZeroState
  /\ polls = 0
  /\ enis = 0
  /\ retries = 0
  /\ cleanupErr = "nil"
  /\ waitErr = "nil"
  /\ ret = "nil"

\* ------------------------------------------------------------ CustomizeDiff
\* schema.Set.Difference
Difference(a, b) == a \ b

\* customizeDiffNLBSubnets looking only at the subnets that were added
customizeDiffNLBSubnets_AddOnly(lbType, diffId, o, n) ==
  IF lbType # LoadBalancerTypeEnumNetwork THEN FALSE
  ELSE IF diffId = NoId THEN FALSE
  ELSE Cardinality(Difference(n, o)) > 0

\* customizeDiffNLBSubnets returning before the subnets are compared
customizeDiffNLBSubnets_NoForce(lbType, diffId, o, n) == FALSE

\* customizeDiffNLBSubnets: TRUE when it calls diff.ForceNew("subnets").
\* lbType is diff.Get("load_balancer_type"), diffId is diff.Id(), o and n are
\* the two sides of diff.GetChange("subnets") (a nil side is the empty set).
customizeDiffNLBSubnets(lbType, diffId, o, n) ==
  IF lbType # LoadBalancerTypeEnumNetwork THEN FALSE
  ELSE IF diffId = NoId THEN FALSE
  ELSE LET remove == Difference(o, n)
           add == Difference(n, o)
       IN Cardinality(remove) > 0 \/ Cardinality(add) > 0

\* The framework plans a change of the declared configuration and runs the
\* CustomizeDiff hook on it.  load_balancer_type is ForceNew in the schema, so
\* a plan for an existing resource that is updated in place keeps the type.
\* A field whose difference the schema suppresses (DiffSuppressFunc), or that
\* the configuration leaves to the provider (Computed), is planned with the
\* state's value: keepAttrs plans the attribute fields that way.
AttrFields ==
  {"access_logs", "idle_timeout", "enable_http2", "drop_invalid_header_fields",
   "enable_cross_zone_load_balancing", "enable_deletion_protection"}

\* fields the configurations leave to the provider (Computed)
ComputedFields == {"subnet_mapping", "arn_suffix"}

Planned(c, keepAttrs) ==
  [key \in DOMAIN st |->
     IF key \in ComputedFields \/ (keepAttrs /\ key \in AttrFields) THEN st[key] ELSE c[key]]

Diff(c, keepAttrs) ==
  /\ pc = "idle"
  /\ ~planned
  /\ id # NoId => st.load_balancer_type = c.load_balancer_type
  /\ id = NoId => ~keepAttrs
  /\ cfg' = Planned(c, keepAttrs)
  /\ planned' = TRUE
  /\ forceNew' = customizeDiffNLBSubnets(c.load_balancer_type, id, st.subnets, c.subnets)
  /\ UNCHANGED <<id, st, d, isNew, op, pc, calls, updFrom, lb, polls, enis, retries,
                 cleanupErr, waitErr, ret>>

\* Importer: schema.ImportStatePassthrough puts the given string in d.Id()
Import(i) ==
  /\ pc = "idle"
  /\ id = NoId
  /\ ~planned
  /\ id' = i
  /\ UNCHANGED <<st, d, cfg, planned, forceNew, isNew, op, pc, calls, updFrom, lb, polls,
                 enis, retries, cleanupErr, waitErr, ret>>

\* ------------------------------------------------------------------- helpers
\* the handler returns err (or "nil") to the framework
Return(err) == pc' = "done" /\ ret' = err

\* the framework invokes a handler
Invoke(handler, first, new) ==
  /\ op' = handler
  /\ pc' = first
  /\ d' = st
  /\ isNew' = new
  /\ calls' = << >>
  /\ updFrom' = 0
  /\ polls' = 0
  /\ enis' = 0
  /\ retries' = 0
  /\ cleanupErr' = "nil"
  /\ waitErr' = "nil"
  /\ ret' = "running"

\* ------------------------------------------------- waiter.LoadBalancerActive
\* PollRead taking every status that was read without error for "active"
PollRead_AnyStatus(at, next, status) ==
  /\ pc = at
  /\ polls < MaxPolls
  /\ calls' = Append(calls, Call("DescribeLoadBalancers(status)", id, status))
  /\ polls' = polls + 1
  /\ IF status = "error"
       THEN /\ Return("error waiting for Load Balancer to be active")
            /\ updFrom' = updFrom
       ELSE /\ pc' = next
            /\ ret' = ret
            /\ updFrom' = IF at = "c_poll" THEN Len(calls') ELSE updFrom
  /\ UNCHANGED <<id, st, d, cfg, planned, forceNew, isNew, op, lb, enis, retries,
                 cleanupErr, waitErr>>

\* One status read of the poll.  "active" ends the poll with success, an error
\* of the read ends it with that error, any other status is read again.
PollRead(at, next, status) ==
  /\ pc = at
  /\ polls < MaxPolls
  /\ calls' = Append(calls, Call("DescribeLoadBalancers(status)", id, status))
  /\ polls' = polls + 1
  /\ CASE status = "active" -> /\ pc' = next
                               /\ ret' = ret
                               /\ updFrom' = IF at = "c_poll" THEN Len(calls') ELSE updFrom
       [] status = "error"  -> /\ Return("error waiting for Load Balancer to be active")
                               /\ updFrom' = updFrom
       [] OTHER             -> /\ pc' = pc
                               /\ ret' = ret
                               /\ updFrom' = updFrom
  /\ UNCHANGED <<id, st, d, cfg, planned, forceNew, isNew, op, lb, enis, retries,
                 cleanupErr, waitErr>>

\* The deadline (d.Timeout) elapses while the status is not active.
PollTimeout(at) ==
  /\ pc = at
  /\ Return("error waiting for Load Balancer to be active")
  /\ UNCHANGED <<id, st, d, cfg, planned, forceNew, isNew, op, calls, updFrom, lb, polls,
                 enis, retries, cleanupErr, waitErr>>

\* ------------------------------------------------------------------- Create
\* The framework applies a plan for a resource that has no identity.
CreateStart ==
  /\ pc = "idle"
  /\ planned
  /\ id = NoId
  /\ Invoke("Create", "c_create", TRUE)
  /\ UNCHANGED <<id, st, cfg, planned, forceNew, lb>>

\* Create_CreateLoadBalancer rejecting only an answer without records
Create_CreateLoadBalancer_ZeroOnly(ok, n) ==
  /\ pc = "c_create"
  /\ calls' = Append(calls, CallN("CreateLoadBalancer", cfg.subnets, Answer(ok), IF ok THEN n ELSE 0))
  /\ IF ~ok
       THEN Return("error creating Load Balancer") /\ id' = id
       ELSE IF n = 0
         THEN Return("no load balancers returned following creation") /\ id' = id
         ELSE /\ id' = LoadBalancerArn
              /\ pc' = "c_poll"
              /\ ret' = ret
  /\ UNCHANGED <<st, d, cfg, planned, forceNew, isNew, op, updFrom, lb, polls, enis,
                 retries, cleanupErr, waitErr>>

\* conn.CreateLoadBalancer: the call fails (~ok) or returns n records
Create_CreateLoadBalancer(ok, n) ==
  /\ pc = "c_create"
  /\ calls' = Append(calls, CallN("CreateLoadBalancer", cfg.subnets, Answer(ok), IF ok THEN n ELSE 0))
  /\ IF ~ok
       THEN Return("error creating Load Balancer") /\ id' = id
       ELSE IF n # 1
         THEN Return("no load balancers returned following creation") /\ id' = id
         ELSE /\ id' = LoadBalancerArn
              /\ pc' = "c_poll"
              /\ ret' = ret
  /\ UNCHANGED <<st, d, cfg, planned, forceNew, isNew, op, updFrom, lb, polls, enis,
                 retries, cleanupErr, waitErr>>

\* resourceAwsLbCreate going on to resourceAwsLbUpdate when the poll's
\* deadline has elapsed
resourceAwsLbCreate_IgnorePollError ==
  \/ CreateStart
  \/ \E ok \in BOOLEAN, n \in 0..MaxRecords : Create_CreateLoadBalancer(ok, n)
  \/ \E status \in {"provisioning", "active", "error"} : PollRead("c_poll", "u_tags", status)
  \/ /\ pc = "c_poll"
     /\ pc' = "u_tags"
     /\ updFrom' = Len(calls)
     /\ UNCHANGED <<id, st, d, cfg, planned, forceNew, isNew, op, calls, lb, polls, enis,
                    retries, cleanupErr, waitErr, ret>>

resourceAwsLbCreate ==
  \/ CreateStart
  \/ \E ok \in BOOLEAN, n \in 0..MaxRecords : Create_CreateLoadBalancer(ok, n)
  \/ \E status \in {"provisioning", "active", "error"} : PollRead("c_poll", "u_tags", status)
  \/ PollTimeout("c_poll")

\* ------------------------------------------------------------------- Update
Attribute(key, value) == [Key |-> key, Value |-> value]

\* accessLogAttributes sending the bucket and the prefix whatever "enabled" is
accessLogAttributes_AlwaysBucket(logs) ==
  IF Len(logs) = 1
  THEN <<Attribute("access_logs.s3.enabled", FormatBool(logs[1].enabled)),
         Attribute("access_logs.s3.bucket", logs[1].bucket),
         Attribute("access_logs.s3.prefix", logs[1].prefix)>>
  ELSE <<Attribute("access_logs.s3.enabled", "false")>>

\* the access-log attributes of resourceAwsLbUpdate, from d.Get("access_logs")
accessLogAttributes(logs) ==
  IF Len(logs) = 1
  THEN LET log == logs[1]
           enabled == log.enabled
       IN <<Attribute("access_logs.s3.enabled", FormatBool(enabled))>>
          \o (IF enabled
              THEN <<Attribute("access_logs.s3.bucket", log.bucket),
                     Attribute("access_logs.s3.prefix", log.prefix)>>
              ELSE << >>)
  ELSE <<Attribute("access_logs.s3.enabled", "false")>>

\* typeAttributes without the switch: the cross-zone attribute for every type
typeAttributes_CrossZoneForAll(o, n, new) ==
  IF Changed(o, n, "enable_cross_zone_load_balancing") \/ new
  THEN <<Attribute("load_balancing.cross_zone.enabled",
                   FormatBool(n.enable_cross_zone_load_balancing))>>
  ELSE << >>

\* the attributes of the switch on d.Get("load_balancer_type")
typeAttributes(o, n, new) ==
  CASE n.load_balancer_type = LoadBalancerTypeEnumApplication ->
         (IF Changed(o, n, "idle_timeout") \/ new
          THEN <<Attribute("idle_timeout.timeout_seconds", FormatInt(n.idle_timeout))>>
          ELSE << >>)
         \o (IF Changed(o, n, "enable_http2") \/ new
             THEN <<Attribute("routing.http2.enabled", FormatBool(n.enable_http2))>>
             ELSE << >>)
         \o (IF Changed(o, n, "drop_invalid_header_fields") \/ new
             THEN <<Attribute("routing.http.drop_invalid_header_fields.enabled",
                              FormatBool(n.drop_invalid_header_fields))>>
             ELSE << >>)
    [] n.load_balancer_type \in {LoadBalancerTypeEnumGateway, LoadBalancerTypeEnumNetwork} ->
         (IF Changed(o, n, "enable_cross_zone_load_balancing") \/ new
          THEN <<Attribute("load_balancing.cross_zone.enabled",
                           FormatBool(n.enable_cross_zone_load_balancing))>>
          ELSE << >>)
    [] OTHER -> << >>

\* lbAttributes sending the access-log attributes also for a new resource
lbAttributes_AccessLogsWhenNew(o, n, new) ==
  (IF Changed(o, n, "access_logs") \/ new
   THEN accessLogAttributes(n.access_logs) ELSE << >>)
  \o typeAttributes(o, n, new)
  \o (IF Changed(o, n, "enable_deletion_protection") \/ new
      THEN <<Attribute("deletion_protection.enabled",
                       FormatBool(n.enable_deletion_protection))>>
      ELSE << >>)

\* lbAttributes without the tests of d.IsNewResource()
lbAttributes_ChangedOnly(o, n, new) ==
  (IF Changed(o, n, "access_logs") THEN accessLogAttributes(n.access_logs) ELSE << >>)
  \o typeAttributes(o, n, FALSE)
  \o (IF Changed(o, n, "enable_deletion_protection")
      THEN <<Attribute("deletion_protection.enabled",
                       FormatBool(n.enable_deletion_protection))>>
      ELSE << >>)

\* lbAttributes sending deletion protection on every update
lbAttributes_AlwaysProtection(o, n, new) ==
  (IF Changed(o, n, "access_logs") THEN accessLogAttributes(n.access_logs) ELSE << >>)
  \o typeAttributes(o, n, new)
  \o <<Attribute("deletion_protection.enabled", FormatBool(n.enable_deletion_protection))>>

\* the list "attributes" that resourceAwsLbUpdate builds from the state's
\* values o, the planned values n and d.IsNewResource()
lbAttributes(o, n, new) ==
  (IF Changed(o, n, "access_logs") THEN accessLogAttributes(n.access_logs) ELSE << >>)
  \o typeAttributes(o, n, new)
  \o (IF Changed(o, n, "enable_deletion_protection") \/ new
      THEN <<Attribute("deletion_protection.enabled",
                       FormatBool(n.enable_deletion_protection))>>
      ELSE << >>)

\* The framework applies a plan in place to a resource that has an identity.
\* A plan that marks a field as ForceNew is applied by Delete and Create.
UpdateStart ==
  /\ pc = "idle"
  /\ planned
  /\ id # NoId
  /\ ~forceNew
  /\ Invoke("Update", "u_tags", FALSE)
  /\ UNCHANGED <<id, st, cfg, planned, forceNew, lb>>

\* UpdateStep going on to the next step after a failed call
UpdateStep_BestEffort(at, next, cond, name, arg, ok, err) ==
  /\ pc = at
  /\ calls' = IF cond THEN Append(calls, Call(name, arg, Answer(ok))) ELSE calls
  /\ cond \/ ok
  /\ pc' = next
  /\ ret' = ret
  /\ UNCHANGED <<id, st, d, cfg, planned, forceNew, isNew, op, updFrom, lb, polls, enis,
                 retries, cleanupErr, waitErr>>

\* One step of resourceAwsLbUpdate: when cond holds the call is issued and its
\* failure (~ok) is returned; otherwise the handler goes on to the next step.
UpdateStep(at, next, cond, name, arg, ok, err) ==
  /\ pc = at
  /\ IF cond
       THEN /\ calls' = Append(calls, Call(name, arg, Answer(ok)))
            /\ IF ok THEN pc' = next /\ ret' = ret ELSE Return(err)
       ELSE /\ ok
            /\ calls' = calls
            /\ pc' = next
            /\ ret' = ret
  /\ UNCHANGED <<id, st, d, cfg, planned, forceNew, isNew, op, updFrom, lb, polls, enis,
                 retries, cleanupErr, waitErr>>

\* keyvaluetags.Elbv2UpdateTags
Update_Tags(ok) ==
  UpdateStep("u_tags", "u_attrs", HasChange("tags"),
             "UpdateTags", cfg.tags, ok, "error updating ALB tags")

\* conn.ModifyLoadBalancerAttributes
Update_ModifyLoadBalancerAttributes(ok) ==
  LET attributes == lbAttributes(st, cfg, isNew) IN
  UpdateStep("u_attrs", "u_sgs", Len(attributes) # 0,
             "ModifyLoadBalancerAttributes", attributes, ok,
             "Failure configuring LB attributes")

\* Update_SetSecurityGroups issuing the call again after it failed
Update_SetSecurityGroups_Retry(ok) ==
  /\ pc = "u_sgs"
  /\ IF HasChange("security_groups")
       THEN /\ calls' = Append(calls, Call("SetSecurityGroups", cfg.security_groups, Answer(ok)))
            /\ pc' = IF ok THEN "u_subnets" ELSE pc
       ELSE /\ ok
            /\ calls' = calls
            /\ pc' = "u_subnets"
  /\ UNCHANGED <<id, st, d, cfg, planned, forceNew, isNew, op, updFrom, lb, polls, enis,
                 retries, cleanupErr, waitErr, ret>>

\* conn.SetSecurityGroups
Update_SetSecurityGroups(ok) ==
  UpdateStep("u_sgs", "u_subnets", HasChange("security_groups"),
             "SetSecurityGroups", cfg.security_groups, ok,
             "Failure Setting LB Security Groups")

\* Update_SetSubnets without the test of d.IsNewResource()
Update_SetSubnets_AlsoNew(ok) ==
  UpdateStep("u_subnets", "u_ip", HasChange("subnets"),
             "SetSubnets", cfg.subnets, ok, "Failure Setting LB Subnets")

\* conn.SetSubnets
Update_SetSubnets(ok) ==
  UpdateStep("u_subnets", "u_ip", HasChange("subnets") /\ ~isNew,
             "SetSubnets", cfg.subnets, ok, "Failure Setting LB Subnets")

\* conn.SetIpAddressType
Update_SetIpAddressType(ok) ==
  UpdateStep("u_ip", "u_poll", HasChange("ip_address_type"),
             "SetIpAddressType", cfg.ip_address_type, ok,
             "Failure Setting LB IP Address Type")

resourceAwsLbUpdate ==
  \/ UpdateStart
  \/ \E ok \in BOOLEAN : Update_Tags(ok)
  \/ \E ok \in BOOLEAN : Update_ModifyLoadBalancerAttributes(ok)
  \/ \E ok \in BOOLEAN : Update_SetSecurityGroups(ok)
  \/ \E ok \in BOOLEAN : Update_SetSubnets(ok)
  \/ \E ok \in BOOLEAN : Update_SetIpAddressType(ok)
  \/ \E status \in {"provisioning", "active", "error"} : PollRead("u_poll", "r_describe", status)
  \/ PollTimeout("u_poll")

\* --------------------------------------------------------------------- Read
\* strconv.Atoi on the decimal digits of a natural number
RECURSIVE Atoi(_)
Atoi(ds) ==
  IF Len(ds) = 0 THEN 0 ELSE 10 * Atoi(SubSeq(ds, 1, Len(ds) - 1)) + ds[Len(ds)]

\* what DescribeLoadBalancerAttributes answers for a load balancer whose
\* settings are rec: the keys that exist for its type, values as strings
RemoteAttributes(rec) ==
  LET logs == IF Len(rec.access_logs) = 1 THEN rec.access_logs[1]
              ELSE [enabled |-> FALSE, bucket |-> "", prefix |-> ""]
  IN <<Attribute("access_logs.s3.enabled", FormatBool(logs.enabled)),
       Attribute("access_logs.s3.bucket", logs.bucket),
       Attribute("access_logs.s3.prefix", logs.prefix),
       Attribute("deletion_protection.enabled", FormatBool(rec.enable_deletion_protection))>>
     \o (IF rec.load_balancer_type = LoadBalancerTypeEnumApplication
         THEN <<Attribute("idle_timeout.timeout_seconds", FormatInt(rec.idle_timeout)),
                Attribute("routing.http2.enabled", FormatBool(rec.enable_http2)),
                Attribute("routing.http.drop_invalid_header_fields.enabled",
                          FormatBool(rec.drop_invalid_header_fields))>>
         ELSE <<Attribute("load_balancing.cross_zone.enabled",
                          FormatBool(rec.enable_cross_zone_load_balancing))>>)

\* the loop of flattenAwsLbResource over attributesResp.Attributes: s holds the
\* fields set so far and, under "access_logs", the one accessLogMap
RECURSIVE flattenAttributes(_, _)
flattenAttributes(s, attrs) ==
  IF Len(attrs) = 0 THEN s
  ELSE LET attr == Head(attrs)
           k == attr.Key
           s1 ==
             CASE k = "access_logs.s3.enabled" ->
                    [s EXCEPT !.access_logs[1].enabled = (attr.Value = "true")]
               [] k = "access_logs.s3.bucket" ->
                    [s EXCEPT !.access_logs[1].bucket = attr.Value]
               [] k = "access_logs.s3.prefix" ->
                    [s EXCEPT !.access_logs[1].prefix = attr.Value]
               [] k = "idle_timeout.timeout_seconds" ->
                    [s EXCEPT !.idle_timeout = Atoi(attr.Value)]
               [] k = "routing.http.drop_invalid_header_fields.enabled" ->
                    [s EXCEPT !.drop_invalid_header_fields = (attr.Value = "true")]
               [] k = "deletion_protection.enabled" ->
                    [s EXCEPT !.enable_deletion_protection = (attr.Value = "true")]
               [] k = "routing.http2.enabled" ->
                    [s EXCEPT !.enable_http2 = (attr.Value = "true")]
               [] k = "load_balancing.cross_zone.enabled" ->
                    [s EXCEPT !.enable_cross_zone_load_balancing = (attr.Value = "true")]
               [] OTHER -> s
       IN flattenAttributes(s1, Tail(attrs))

\* lb.AvailabilityZones of a described record: one zone per subnet, without
\* outpost and without load balancer addresses
AvailabilityZones(rec) ==
  {[SubnetId |-> sn, OutpostId |-> "", LoadBalancerAddresses |-> << >>] : sn \in rec.subnets}

flattenSubnetsFromAvailabilityZones(availabilityZones) ==
  {az.SubnetId : az \in availabilityZones}

\* flattenSubnetMappingsFromAvailabilityZones losing every zone
flattenSubnetMappingsFromAvailabilityZones_Empty(availabilityZones) == {}

\* one map per zone; the address fields are those of the zone's last address
\* and read as "" when the zone has none
flattenSubnetMappingsFromAvailabilityZones(availabilityZones) ==
  {LET as == az.LoadBalancerAddresses
       has == Len(as) > 0
   IN [subnet_id |-> az.SubnetId, outpost_id |-> az.OutpostId,
       allocation_id |-> IF has THEN as[Len(as)].AllocationId ELSE "",
       private_ipv4_address |-> IF has THEN as[Len(as)].PrivateIPv4Address ELSE "",
       ipv6_address |-> IF has THEN as[Len(as)].IPv6Address ELSE ""] :
   az \in availabilityZones}

\* The framework refreshes the state of a resource that has an identity.
ReadStart ==
  /\ pc = "idle"
  /\ ~planned
  /\ id # NoId
  /\ Invoke("Read", "r_describe", FALSE)
  /\ UNCHANGED <<id, st, cfg, planned, forceNew, lb>>

\* the records a DescribeLoadBalancers of this identity can answer with: what
\* the update just applied, or for a refresh whatever the remote side holds (a
\* load balancer never changes its type)
Described ==
  IF op = "Read"
  THEN {c \in Configs : st.load_balancer_type \in {"", c.load_balancer_type}}
  ELSE {cfg}

\* Read_DescribeLoadBalancers returning the not-found answer as an error
Read_DescribeLoadBalancers_NotFoundIsError(answer, rec) ==
  /\ pc = "r_describe"
  /\ answer = "ok" => id = LoadBalancerArn
  /\ calls' = Append(calls, Call("DescribeLoadBalancers", id, answer))
  /\ CASE answer \in {"notfound", "error"} ->
            /\ Return("Error retrieving ALB")
            /\ UNCHANGED <<id, st, d, lb>>
       [] answer = "count" ->
            /\ Return("Unable to find ALB")
            /\ UNCHANGED <<id, st, d, lb>>
       [] OTHER ->
            /\ lb' = rec
            /\ d' = [d EXCEPT !.arn_suffix = lbSuffixFromARN(id),
                              !.security_groups = rec.security_groups,
                              !.ip_address_type = rec.ip_address_type,
                              !.load_balancer_type = rec.load_balancer_type,
                              !.subnets =
                                 flattenSubnetsFromAvailabilityZones(AvailabilityZones(rec)),
                              !.subnet_mapping =
                                 flattenSubnetMappingsFromAvailabilityZones(
                                   AvailabilityZones(rec))]
            /\ pc' = "r_tags"
            /\ UNCHANGED <<id, ret>>
  /\ UNCHANGED <<st, cfg, planned, forceNew, isNew, op, updFrom, polls, enis, retries,
                 cleanupErr, waitErr>>

\* Read_DescribeLoadBalancers clearing the identity also when the answer does
\* not hold exactly one record
Read_DescribeLoadBalancers_ClearOnCount(answer, rec) ==
  /\ pc = "r_describe"
  /\ answer = "ok" => id = LoadBalancerArn
  /\ calls' = Append(calls, Call("DescribeLoadBalancers", id, answer))
  /\ CASE answer = "notfound" ->
            /\ id' = NoId
            /\ Return("nil")
            /\ UNCHANGED <<d, lb>>
       [] answer = "error" ->
            /\ Return("Error retrieving ALB")
            /\ UNCHANGED <<id, st, d, lb>>
       [] answer = "count" ->
            /\ id' = NoId
            /\ Return("Unable to find ALB")
            /\ UNCHANGED <<d, lb>>
       [] OTHER ->
            /\ lb' = rec
            /\ d' = [d EXCEPT !.arn_suffix = lbSuffixFromARN(id),
                              !.security_groups = rec.security_groups,
                              !.ip_address_type = rec.ip_address_type,
                              !.load_balancer_type = rec.load_balancer_type,
                              !.subnets =
                                 flattenSubnetsFromAvailabilityZones(AvailabilityZones(rec)),
                              !.subnet_mapping =
                                 flattenSubnetMappingsFromAvailabilityZones(
                                   AvailabilityZones(rec))]
            /\ pc' = "r_tags"
            /\ UNCHANGED <<id, ret>>
  /\ UNCHANGED <<st, cfg, planned, forceNew, isNew, op, updFrom, polls, enis, retries,
                 cleanupErr, waitErr>>

\* conn.DescribeLoadBalancers in resourceAwsLbRead, then the d.Set calls of
\* flattenAwsLbResource that precede Elbv2ListTags.  The remote side describes
\* only the load balancer it created: any other identity gets no record, and
\* the record's LoadBalancerArn is the identity asked for.
Read_DescribeLoadBalancers(answer, rec) ==
  /\ pc = "r_describe"
  /\ answer = "ok" => id = LoadBalancerArn
  /\ calls' = Append(calls, Call("DescribeLoadBalancers", id, answer))
  /\ CASE answer = "notfound" ->
            /\ id' = NoId
            /\ Return("nil")
            /\ UNCHANGED <<d, lb>>
       [] answer = "error" ->
            /\ Return("Error retrieving ALB")
            /\ UNCHANGED <<id, st, d, lb>>
       [] answer = "count" ->
            /\ Return("Unable to find ALB")
            /\ UNCHANGED <<id, st, d, lb>>
       [] OTHER ->
            /\ lb' = rec
            /\ d' = [d EXCEPT !.arn_suffix = lbSuffixFromARN(id),
                              !.security_groups = rec.security_groups,
                              !.ip_address_type = rec.ip_address_type,
                              !.load_balancer_type = rec.load_balancer_type,
                              !.subnets =
                                 flattenSubnetsFromAvailabilityZones(AvailabilityZones(rec)),
                              !.subnet_mapping =
                                 flattenSubnetMappingsFromAvailabilityZones(
                                   AvailabilityZones(rec))]
            /\ pc' = "r_tags"
            /\ UNCHANGED <<id, ret>>
  /\ UNCHANGED <<st, cfg, planned, forceNew, isNew, op, updFrom, polls, enis, retries,
                 cleanupErr, waitErr>>

\* keyvaluetags.Elbv2ListTags in flattenAwsLbResource
Read_ListTags(ok) ==
  /\ pc = "r_tags"
  /\ calls' = Append(calls, Call("DescribeTags", id, Answer(ok)))
  /\ IF ok
       THEN /\ d' = [d EXCEPT !.tags = lb.tags]
            /\ pc' = "r_attrs"
            /\ ret' = ret
       ELSE /\ Return("error listing tags")
            /\ d' = d
  /\ UNCHANGED <<id, st, cfg, planned, forceNew, isNew, op, updFrom, lb, polls, enis,
                 retries, cleanupErr, waitErr>>

\* conn.DescribeLoadBalancerAttributes in flattenAwsLbResource and the
\* decoding of its answer
Read_DescribeLoadBalancerAttributes(ok) ==
  /\ pc = "r_attrs"
  /\ calls' = Append(calls, Call("DescribeLoadBalancerAttributes", id, Answer(ok)))
  /\ IF ok
       THEN /\ d' = flattenAttributes(
                      [d EXCEPT !.access_logs =
                                   <<[bucket |-> "", enabled |-> FALSE, prefix |-> ""]>>],
                      RemoteAttributes(lb))
            /\ Return("nil")
       ELSE /\ Return("Error retrieving LB Attributes")
            /\ d' = d
  /\ UNCHANGED <<id, st, cfg, planned, forceNew, isNew, op, updFrom, lb, polls, enis,
                 retries, cleanupErr, waitErr>>

resourceAwsLbRead ==
  \/ ReadStart
  \/ \E answer \in {"ok", "notfound", "error", "count"}, rec \in Described :
       Read_DescribeLoadBalancers(answer, rec)
  \/ \E ok \in BOOLEAN : Read_ListTags(ok)
  \/ \E ok \in BOOLEAN : Read_DescribeLoadBalancerAttributes(ok)

\* ------------------------------------------------------------------- Delete
\* The framework destroys a resource that has an identity, either because it
\* is no longer declared or because the plan requires its replacement.
DeleteStart ==
  /\ pc = "idle"
  /\ id # NoId
  /\ planned => forceNew
  /\ Invoke("Delete", "d_delete", FALSE)
  /\ UNCHANGED <<id, st, cfg, planned, forceNew, lb>>

\* Delete_DeleteLoadBalancer only logging the error of the call
Delete_DeleteLoadBalancer_Continue(answer) ==
  /\ pc = "d_delete"
  /\ calls' = Append(calls, Call("DeleteLoadBalancer", id, answer))
  /\ pc' = "cl_describe"
  /\ UNCHANGED <<id, st, d, cfg, planned, forceNew, isNew, op, updFrom, lb, polls, enis,
                 retries, cleanupErr, waitErr, ret>>

\* conn.DeleteLoadBalancer
Delete_DeleteLoadBalancer(answer) ==
  /\ pc = "d_delete"
  /\ calls' = Append(calls, Call("DeleteLoadBalancer", id, answer))
  /\ IF answer = "ok"
       THEN pc' = "cl_describe" /\ ret' = ret
       ELSE Return("Error deleting LB")
  /\ UNCHANGED <<id, st, d, cfg, planned, forceNew, isNew, op, updFrom, lb, polls, enis,
                 retries, cleanupErr, waitErr>>

\* cleanupLBNetworkInterfaces up to its "nothing to cleanup" return:
\* getLbNameFromArn, then conn.DescribeNetworkInterfaces answering n interfaces
Cleanup_DescribeNetworkInterfaces(ok, n) ==
  /\ pc = "cl_describe"
  /\ LET name == getLbNameFromArn(id) IN
     IF name.err
     THEN /\ cleanupErr' = "Unexpected ARN format"
          /\ pc' = "w_retry"
          /\ UNCHANGED <<calls, enis>>
     ELSE /\ calls' = Append(calls, CallN("DescribeNetworkInterfaces(amazon-elb)", name.name, Answer(ok),
                                        IF ok THEN n ELSE 0))
          /\ IF ~ok
               THEN cleanupErr' = "DescribeNetworkInterfaces" /\ pc' = "w_retry" /\ enis' = enis
               ELSE IF n = 0
                 THEN cleanupErr' = "nil" /\ pc' = "w_retry" /\ enis' = 0
                 ELSE cleanupErr' = cleanupErr /\ pc' = "cl_detach" /\ enis' = n
  /\ UNCHANGED <<id, st, d, cfg, planned, forceNew, isNew, op, updFrom, lb, polls,
                 retries, waitErr, ret>>

\* Cleanup_detachNetworkInterfaces going on to the destroy step after a failure
Cleanup_detachNetworkInterfaces_Continue(ok) ==
  /\ pc = "cl_detach"
  /\ calls' = Append(calls, Call("DetachNetworkInterface", enis, Answer(ok)))
  /\ cleanupErr' = IF ok THEN cleanupErr ELSE "DetachNetworkInterface"
  /\ pc' = "cl_delete"
  /\ UNCHANGED <<id, st, d, cfg, planned, forceNew, isNew, op, updFrom, lb, polls, enis,
                 retries, waitErr, ret>>

\* detachNetworkInterfaces(conn, out.NetworkInterfaces)
Cleanup_detachNetworkInterfaces(ok) ==
  /\ pc = "cl_detach"
  /\ calls' = Append(calls, Call("DetachNetworkInterface", enis, Answer(ok)))
  /\ IF ok
       THEN cleanupErr' = cleanupErr /\ pc' = "cl_delete"
       ELSE cleanupErr' = "DetachNetworkInterface" /\ pc' = "w_retry"
  /\ UNCHANGED <<id, st, d, cfg, planned, forceNew, isNew, op, updFrom, lb, polls, enis,
                 retries, waitErr, ret>>

\* deleteNetworkInterfaces(conn, out.NetworkInterfaces)
Cleanup_deleteNetworkInterfaces(ok) ==
  /\ pc = "cl_delete"
  /\ calls' = Append(calls, Call("DeleteNetworkInterface", enis, Answer(ok)))
  /\ cleanupErr' = IF ok THEN "nil" ELSE "DeleteNetworkInterface"
  /\ pc' = "w_retry"
  /\ UNCHANGED <<id, st, d, cfg, planned, forceNew, isNew, op, updFrom, lb, polls, enis,
                 retries, waitErr, ret>>

\* maxENIs: most interfaces the answer to the query carries
cleanupLBNetworkInterfaces(maxENIs) ==
  \/ \E ok \in BOOLEAN, n \in 0..maxENIs : Cleanup_DescribeNetworkInterfaces(ok, n)
  \/ \E ok \in BOOLEAN : Cleanup_detachNetworkInterfaces(ok)
  \/ \E ok \in BOOLEAN : Cleanup_deleteNetworkInterfaces(ok)

\* Wait_DescribeNetworkInterfaces repeating the query after an answer without
\* interfaces
Wait_DescribeNetworkInterfaces_NoExit(ok, n) ==
  /\ pc = "w_retry"
  /\ ~getLbNameFromArn(id).err
  /\ calls' = Append(calls, CallN("DescribeNetworkInterfaces(amazon-aws)",
                                  getLbNameFromArn(id).name, Answer(ok), IF ok THEN n ELSE 0))
  /\ IF ~ok
       THEN /\ waitErr' = "Error describing network inferfaces"
            /\ pc' = "d_return"
            /\ UNCHANGED <<enis, retries>>
       ELSE /\ waitErr' = waitErr
            /\ pc' = pc
            /\ enis' = n
            /\ retries' = retries + 1
  /\ UNCHANGED <<id, st, d, cfg, planned, forceNew, isNew, op, updFrom, lb, polls,
                 cleanupErr, ret>>

\* One run of the function given to resource.Retry in
\* waitForNLBNetworkInterfacesToDetach (after getLbNameFromArn on the first
\* run): conn.DescribeNetworkInterfaces answering n interfaces.
Wait_DescribeNetworkInterfaces(ok, n) ==
  /\ pc = "w_retry"
  /\ LET name == getLbNameFromArn(id) IN
     IF name.err
     THEN /\ waitErr' = "Unexpected ARN format"
          /\ pc' = "d_return"
          /\ UNCHANGED <<calls, enis, retries>>
     ELSE /\ calls' = Append(calls, CallN("DescribeNetworkInterfaces(amazon-aws)", name.name, Answer(ok),
                                        IF ok THEN n ELSE 0))
          /\ IF ~ok
               THEN /\ waitErr' = "Error describing network inferfaces"
                    /\ pc' = "d_return"
                    /\ UNCHANGED <<enis, retries>>
               ELSE IF n > 0
                 THEN /\ waitErr' = waitErr
                      /\ pc' = pc
                      /\ enis' = n
                      /\ retries' = retries + 1
                 ELSE /\ waitErr' = "nil"
                      /\ pc' = "d_return"
                      /\ enis' = 0
                      /\ retries' = retries
  /\ UNCHANGED <<id, st, d, cfg, planned, forceNew, isNew, op, updFrom, lb, polls,
                 cleanupErr, ret>>

\* Wait_Timeout for a retry whose deadline is not looked at any more once a
\* query has been answered
Wait_Timeout_BeforeFirstAnswer(timeoutErr) ==
  /\ pc = "w_retry"
  /\ ~getLbNameFromArn(id).err
  /\ retries = 0
  /\ timeoutErr
  /\ pc' = "w_final"
  /\ UNCHANGED <<id, st, d, cfg, planned, forceNew, isNew, op, calls, updFrom, lb, polls,
                 enis, retries, cleanupErr, waitErr, ret>>

\* The 5 minutes of resource.Retry elapse.  timeoutErr: the error Retry returns
\* satisfies isResourceTimeoutError; otherwise it is the retried function's
\* last error, which waitForNLBNetworkInterfacesToDetach wraps and returns.
Wait_Timeout(timeoutErr) ==
  /\ pc = "w_retry"
  /\ ~getLbNameFromArn(id).err
  /\ retries = 0 => timeoutErr
  /\ IF timeoutErr
       THEN pc' = "w_final" /\ waitErr' = waitErr
       ELSE pc' = "d_return" /\ waitErr' = "Error describing network inferfaces"
  /\ UNCHANGED <<id, st, d, cfg, planned, forceNew, isNew, op, calls, updFrom, lb, polls,
                 enis, retries, cleanupErr, ret>>

\* Wait_FinalDescribeNetworkInterfaces not looking at the number of interfaces
Wait_FinalDescribeNetworkInterfaces_IgnoreRemaining(ok, n) ==
  /\ pc = "w_final"
  /\ calls' = Append(calls, CallN("DescribeNetworkInterfaces(amazon-aws)",
                                  getLbNameFromArn(id).name, Answer(ok),
                                  IF ok THEN n ELSE 0))
  /\ waitErr' = IF ~ok THEN "Error describing network inferfaces" ELSE "nil"
  /\ enis' = IF ok THEN n ELSE enis
  /\ pc' = "d_return"
  /\ UNCHANGED <<id, st, d, cfg, planned, forceNew, isNew, op, updFrom, lb, polls,
                 retries, cleanupErr, ret>>

\* the query after isResourceTimeoutError(err)
Wait_FinalDescribeNetworkInterfaces(ok, n) ==
  /\ pc = "w_final"
  /\ calls' = Append(calls, CallN("DescribeNetworkInterfaces(amazon-aws)",
                                  getLbNameFromArn(id).name, Answer(ok),
                                  IF ok THEN n ELSE 0))
  /\ waitErr' = IF ~ok THEN "Error describing network inferfaces"
                ELSE IF n > 0 THEN "Error waiting for ENIs to clean up"
                ELSE "nil"
  /\ enis' = IF ok THEN n ELSE enis
  /\ pc' = "d_return"
  /\ UNCHANGED <<id, st, d, cfg, planned, forceNew, isNew, op, updFrom, lb, polls,
                 retries, cleanupErr, ret>>

\* maxRetries: most queries that resource.Retry gets to repeat
waitForNLBNetworkInterfacesToDetach(maxENIs, maxRetries) ==
  \/ \E ok \in BOOLEAN, n \in 0..maxENIs :
       retries < maxRetries /\ Wait_DescribeNetworkInterfaces(ok, n)
  \/ \E timeoutErr \in BOOLEAN : Wait_Timeout(timeoutErr)
  \/ \E ok \in BOOLEAN, n \in 0..maxENIs : Wait_FinalDescribeNetworkInterfaces(ok, n)

\* resourceAwsLbDelete returning the error of the cleanup wait
DeleteResult_Propagate(cleanup, wait) == wait

\* what resourceAwsLbDelete returns after the two cleanup routines, whose
\* errors it only logs
DeleteResult(cleanup, wait) == "nil"

Delete_Return ==
  /\ pc = "d_return"
  /\ Return(DeleteResult(cleanupErr, waitErr))
  /\ UNCHANGED <<id, st, d, cfg, planned, forceNew, isNew, op, calls, updFrom, lb, polls,
                 enis, retries, cleanupErr, waitErr>>

resourceAwsLbDelete(maxENIs, maxRetries) ==
  \/ DeleteStart
  \/ \E answer \in {"ok", "notfound", "error"} : Delete_DeleteLoadBalancer(answer)
  \/ cleanupLBNetworkInterfaces(maxENIs)
  \/ waitForNLBNetworkInterfacesToDetach(maxENIs, maxRetries)
  \/ Delete_Return

\* ------------------------------------------------------------ the framework
\* The handler has returned.  The framework drops the state of a resource that
\* Delete destroyed or whose identity Read cleared, keeps what a successful
\* Create, Read or Update wrote with d.Set, and a plan is spent once Create or
\* Update ran.
Done ==
  /\ pc = "done"
  /\ pc' = "idle"
  /\ op' = "none"
  /\ id' = IF op = "Delete" /\ ret = "nil" THEN NoId ELSE id
  /\ st' = IF id' = NoId THEN ZeroState
           ELSE IF ret = "nil" /\ op # "Delete" THEN d
           ELSE st
  /\ d' = ZeroState
  /\ planned' = (planned /\ op = "Delete" /\ ret = "nil")
  /\ cfg' = IF planned' THEN cfg ELSE ZeroState
  /\ forceNew' = FALSE
  /\ isNew' = FALSE
  /\ calls' = << >>
  /\ updFrom' = 0
  /\ lb' = ZeroState
  /\ polls' = 0
  /\ enis' = 0
  /\ retries' = 0
  /\ cleanupErr' = "nil"
  /\ waitErr' = "nil"
  /\ ret' = "nil"

Next ==
  \/ \E c \in Configs, keepAttrs \in BOOLEAN : Diff(c, keepAttrs)
  \/ \E i \in ImportIds : Import(i)
  \/ resourceAwsLbCreate
  \/ resourceAwsLbRead
  \/ resourceAwsLbUpdate
  \/ resourceAwsLbDelete(MaxENIs, MaxRetries)
  \/ Done

Spec == Init /\ [][Next]_vars

\* A Delete looked at on its own: the resource was imported under any of the
\* identities and nothing else has happened to it.
DeleteInit ==
  /\ id \in ImportIds
  /\ st = ZeroState
  /\ d = ZeroState
  /\ cfg = ZeroState
  /\ planned = FALSE
  /\ forceNew = FALSE
  /\ isNew = FALSE
  /\ op = "none"
  /\ pc = "idle"
  /\ calls = << >>
  /\ updFrom = 0
  /\ lb = ZeroState
  /\ polls = 0
  /\ enis = 0
  /\ retries = 0
  /\ cleanupErr = "nil"
  /\ waitErr = "nil"
  /\ ret = "nil"

DeleteNext ==
  \/ resourceAwsLbDelete(DeleteMaxENIs, DeleteMaxRetries)
  \/ Done

DeleteSpec == DeleteInit /\ [][DeleteNext]_vars

\* A handler that has been invoked keeps running: every call is answered and
\* the time of resource.Retry passes, so a running Delete takes its next step.
DeleteLiveSpec == DeleteSpec /\ WF_vars(pc # "idle" /\ DeleteNext)

\* ------------------------------------------------------------------- claims
\* the calls resourceAwsLbUpdate has issued, when it is running or has returned
inUpdate == op = "Update" \/ (op = "Create" /\ updFrom > 0)

UpdateCalls == SubSeq(calls, updFrom + 1, Len(calls))

MutatingCalls ==
  {"UpdateTags", "ModifyLoadBalancerAttributes", "SetSecurityGroups", "SetSubnets",
   "SetIpAddressType"}

Issued(log, name) == \E i \in DOMAIN log : log[i].name = name

\* a plan is waiting: CustomizeDiff has run and no handler has started
PlanReady == planned /\ pc = "idle"

SubnetsDiffer == st.subnets # cfg.subnets

\* C1 (as stated): force-replace is signalled on "subnets" if and only if the
\* type is network or gateway, the resource has an identity and the old and
\* new subnet sets differ.
C1_ForceNewIffNetworkOrGateway ==
  PlanReady =>
    (forceNew <=> /\ cfg.load_balancer_type \in
                       {LoadBalancerTypeEnumNetwork, LoadBalancerTypeEnumGateway}
                  /\ id # NoId
                  /\ SubnetsDiffer)

\* C1 (amended): force-replace is signalled on "subnets" if and only if the
\* type is network, the resource has an identity and the old and new subnet
\* sets differ; for application and for gateway nothing is signalled.
C1_ForceNewIffNetwork ==
  PlanReady =>
    (forceNew <=> /\ cfg.load_balancer_type = LoadBalancerTypeEnumNetwork
                  /\ id # NoId
                  /\ SubnetsDiffer)

C1_Witness ==
  /\ PlanReady
  /\ forceNew
  /\ id # NoId
  /\ Cardinality(st.subnets) > Cardinality(cfg.subnets)

\* C2: when the DeleteLoadBalancer call succeeded, Delete returns no error,
\* whatever the two cleanup routines reported.
C2_DeleteSucceedsDespiteCleanup ==
  (op = "Delete" /\ pc = "done" /\ calls[1].ans = "ok") => ret = "nil"

C2_Witness ==
  /\ op = "Delete"
  /\ pc = "done"
  /\ calls[1].ans = "ok"
  /\ cleanupErr = "DetachNetworkInterface"
  /\ waitErr = "Error waiting for ENIs to clean up"

\* position of a call in the order of resourceAwsLbUpdate
Rank(name) ==
  CASE name = "UpdateTags" -> 1
    [] name = "ModifyLoadBalancerAttributes" -> 2
    [] name = "SetSecurityGroups" -> 3
    [] name = "SetSubnets" -> 4
    [] name = "SetIpAddressType" -> 5
    [] name = "DescribeLoadBalancers(status)" -> 6
    [] name = "DescribeLoadBalancers" -> 7
    [] name = "DescribeTags" -> 8
    [] name = "DescribeLoadBalancerAttributes" -> 9
    [] OTHER -> 0

\* C3: the calls of one Update come in the order tags, attributes, security
\* groups, subnets, IP address type, poll, re-read; each of them at most once
\* (the poll being its run of status reads), none outside this list.
C3_UpdateCallOrder ==
  inUpdate =>
    LET u == UpdateCalls IN
    /\ \A i \in DOMAIN u : Rank(u[i].name) > 0
    /\ \A i, j \in DOMAIN u :
         i < j => \/ Rank(u[i].name) < Rank(u[j].name)
                  \/ Rank(u[i].name) = 6 /\ Rank(u[j].name) = 6

C3_Witness ==
  /\ op = "Update"
  /\ pc = "done"
  /\ ret = "nil"
  /\ \A name \in MutatingCalls : Issued(calls, name)
  /\ polls = 2

\* the error resourceAwsLbUpdate returns when the call fails
UpdateError(name) ==
  CASE name = "UpdateTags" -> "error updating ALB tags"
    [] name = "ModifyLoadBalancerAttributes" -> "Failure configuring LB attributes"
    [] name = "SetSecurityGroups" -> "Failure Setting LB Security Groups"
    [] name = "SetSubnets" -> "Failure Setting LB Subnets"
    [] name = "SetIpAddressType" -> "Failure Setting LB IP Address Type"
    [] OTHER -> "nil"

\* C4: a failed call of a step of Update is the last call of that Update, which
\* has returned that step's error; the calls before it had succeeded.
C4_UpdateAbortsOnFirstFailure ==
  inUpdate =>
    LET u == UpdateCalls IN
    \A i \in DOMAIN u :
      (u[i].name \in MutatingCalls /\ u[i].ans = "err") =>
        /\ i = Len(u)
        /\ pc = "done"
        /\ ret = UpdateError(u[i].name)
        /\ \A j \in 1..(i-1) : u[j].name \in MutatingCalls /\ u[j].ans = "ok"

C4_Witness ==
  /\ op = "Update"
  /\ Len(calls) = 3
  /\ calls[3].name = "SetSubnets"
  /\ calls[3].ans = "err"
  /\ pc = "done"

\* C5: an Update of an existing resource whose planned values equal the prior
\* state's values issues no tag, attribute, security-group, subnet or IP-type
\* call.
C5_NoChangeNoCalls ==
  (op = "Update" /\ st = cfg)
  => \A i \in DOMAIN calls : calls[i].name \notin MutatingCalls

C5_Witness ==
  /\ op = "Update"
  /\ pc = "done"
  /\ ret = "nil"
  /\ st = cfg

\* the last call is the DescribeLoadBalancers of resourceAwsLbRead and it was
\* answered with ans
ReadAnswered(ans) ==
  /\ Len(calls) > 0
  /\ calls[Len(calls)].name = "DescribeLoadBalancers"
  /\ calls[Len(calls)].ans = ans

\* C6: after a not-found answer to the describe call, Read has returned no
\* error with the identity cleared, and no later call exists; after any other
\* error of the describe call Read has returned it and the identity is kept.
C6_ReadNotFound ==
  /\ \A i \in DOMAIN calls :
       (calls[i].name = "DescribeLoadBalancers" /\ calls[i].ans # "ok") => i = Len(calls)
  /\ ReadAnswered("notfound") => (pc = "done" /\ ret = "nil" /\ id = NoId)
  /\ ReadAnswered("error") => (pc = "done" /\ ret = "Error retrieving ALB" /\ id # NoId)

C6_Witness ==
  /\ op = "Read"
  /\ ReadAnswered("notfound")
  /\ id = NoId
  /\ ret = "nil"

\* C7: when the DeleteLoadBalancer call answers not-found, Delete returns no
\* error.
C7_DeleteNotFoundIsNoError ==
  (op = "Delete" /\ pc = "done" /\ calls[1].ans = "notfound") => ret = "nil"

\* C8: when the create call fails or returns a number of records other than
\* one, Create has returned an error, the identity is not set, and no call of
\* the poll or of the chained update follows.
C8_CreateNeedsExactlyOneRecord ==
  (/\ op = "Create"
   /\ Len(calls) > 0
   /\ calls[1].ans = "err" \/ calls[1].count # 1)
  => /\ pc = "done"
     /\ ret \in {"error creating Load Balancer",
                 "no load balancers returned following creation"}
     /\ id = NoId
     /\ Len(calls) = 1
     /\ updFrom = 0

C8_Witness ==
  /\ op = "Create"
  /\ pc = "done"
  /\ calls[1].ans = "ok"
  /\ calls[1].count = 2
  /\ ret = "no load balancers returned following creation"

\* C9: the update chained after a create issues no SetSubnets call; the
\* declared subnets went out in the CreateLoadBalancer request.
C9_NoSetSubnetsAfterCreate ==
  (op = "Create" /\ Len(calls) > 0) =>
    /\ ~Issued(calls, "SetSubnets")
    /\ calls[1].name = "CreateLoadBalancer"
    /\ calls[1].arg = cfg.subnets

C9_Witness ==
  /\ op = "Create"
  /\ pc = "u_ip"
  /\ HasChange("subnets")
  /\ cfg.load_balancer_type = LoadBalancerTypeEnumApplication

\* the in-place application of a changed subnet set: right after the subnets
\* step of an Update the last call is SetSubnets with the planned set
SubnetsAppliedInPlace ==
  (op = "Update" /\ pc = "u_ip" /\ SubnetsDiffer) =>
    /\ calls[Len(calls)].name = "SetSubnets"
    /\ calls[Len(calls)].arg = cfg.subnets

\* C10 (as stated): for an existing network or gateway resource a changed
\* subnet set is never applied in place (no SetSubnets call) and force-replace
\* is signalled; for an existing application resource it is applied in place.
C10_NoInPlaceSubnetsForNetworkOrGateway ==
  LET immutable == cfg.load_balancer_type \in
                     {LoadBalancerTypeEnumNetwork, LoadBalancerTypeEnumGateway}
  IN /\ (op = "Update" /\ immutable) => ~Issued(calls, "SetSubnets")
     /\ (PlanReady /\ id # NoId /\ immutable /\ SubnetsDiffer) => forceNew
     /\ ~immutable => SubnetsAppliedInPlace

\* C10 (amended): for an existing network resource a changed subnet set is
\* never applied in place (no SetSubnets call) and force-replace is signalled;
\* for an existing application or gateway resource it is applied in place.
C10_NoInPlaceSubnetsForNetwork ==
  LET immutable == cfg.load_balancer_type = LoadBalancerTypeEnumNetwork
  IN /\ (op = "Update" /\ immutable) => ~Issued(calls, "SetSubnets")
     /\ (PlanReady /\ id # NoId /\ immutable /\ SubnetsDiffer) => forceNew
     /\ ~immutable => SubnetsAppliedInPlace

C10_Witness ==
  /\ op = "Update"
  /\ pc = "u_ip"
  /\ cfg.load_balancer_type = LoadBalancerTypeEnumApplication
  /\ SubnetsDiffer
  /\ calls[Len(calls)].name = "SetSubnets"

\* the keys of a list of attributes
Keys(attributes) == {attributes[i].Key : i \in DOMAIN attributes}

ApplicationKeys ==
  {"idle_timeout.timeout_seconds", "routing.http2.enabled",
   "routing.http.drop_invalid_header_fields.enabled"}

CrossZoneKey == "load_balancing.cross_zone.enabled"

AccessLogKeys == {"access_logs.s3.enabled", "access_logs.s3.bucket", "access_logs.s3.prefix"}

\* the ModifyLoadBalancerAttributes requests issued so far
AttributeRequests == {i \in DOMAIN calls : calls[i].name = "ModifyLoadBalancerAttributes"}

\* C11: no ModifyLoadBalancerAttributes request of Create or Update carries a
\* key outside the type's applicable set: the idle-timeout, HTTP/2 and
\* drop-invalid-header-fields keys go out only for application, the cross-zone
\* key only for network or gateway.
C11_NoKeyOutsideApplicableSet ==
  \A i \in AttributeRequests :
    LET keys == Keys(calls[i].arg) IN
    /\ keys \cap ApplicationKeys # {}
         => cfg.load_balancer_type = LoadBalancerTypeEnumApplication
    /\ CrossZoneKey \in keys
         => cfg.load_balancer_type \in {LoadBalancerTypeEnumNetwork, LoadBalancerTypeEnumGateway}

\* an Update of a network load balancer whose idle timeout and cross-zone
\* setting both changed has sent its attribute request
C11_Witness ==
  /\ op = "Update"
  /\ cfg.load_balancer_type = LoadBalancerTypeEnumNetwork
  /\ HasChange("idle_timeout")
  /\ HasChange("enable_cross_zone_load_balancing")
  /\ \E i \in AttributeRequests : CrossZoneKey \in Keys(calls[i].arg)

\* the access-log instructions of a list of attributes, in their order
AccessLogInstructions(attributes) ==
  SelectSeq(attributes, LAMBDA a : a.Key \in AccessLogKeys)

\* C12: the access-log instructions of an attribute request, when it carries
\* any, are exactly enabled=false (no bucket, no prefix) when the access-log
\* block is absent or not enabled, and exactly enabled=true, the bucket and the
\* prefix when it is enabled.
C12_AccessLogInstructions ==
  \A i \in AttributeRequests :
    LET sent == AccessLogInstructions(calls[i].arg)
        logs == cfg.access_logs
    IN Len(sent) > 0 =>
         IF Len(logs) = 1 /\ logs[1].enabled
         THEN sent = <<Attribute("access_logs.s3.enabled", "true"),
                       Attribute("access_logs.s3.bucket", logs[1].bucket),
                       Attribute("access_logs.s3.prefix", logs[1].prefix)>>
         ELSE sent = <<Attribute("access_logs.s3.enabled", "false")>>

\* an Update that turns enabled access logs off has sent the single instruction
C12_Witness ==
  /\ op = "Update"
  /\ Len(st.access_logs) = 1
  /\ st.access_logs[1].enabled
  /\ Len(cfg.access_logs) = 1
  /\ ~cfg.access_logs[1].enabled
  /\ \E i \in AttributeRequests :
       AccessLogInstructions(calls[i].arg) = <<Attribute("access_logs.s3.enabled", "false")>>

\* resourceAwsLbUpdate has built its list of attributes: it went past the
\* ModifyLoadBalancerAttributes step, or it returned there
PastAttributes ==
  /\ inUpdate
  /\ pc \notin {"u_tags", "u_attrs"}
  /\ ~(Len(UpdateCalls) > 0 /\ UpdateCalls[Len(UpdateCalls)].name = "UpdateTags"
                            /\ UpdateCalls[Len(UpdateCalls)].ans = "err")

\* the attributes the Update sent (none when it issued no request)
SentAttributes ==
  LET u == UpdateCalls
      is == {i \in DOMAIN u : u[i].name = "ModifyLoadBalancerAttributes"}
  IN IF is = {} THEN << >> ELSE u[CHOOSE i \in is : TRUE].arg

InSeq(x, seq) == \E i \in DOMAIN seq : seq[i] = x

\* C13: once Update has built its attributes, each of idle timeout, HTTP/2 and
\* drop-invalid-headers (application), cross-zone (network, gateway) and
\* deletion protection (every type) was sent, with the planned value, if and
\* only if its field changed or the resource is newly created.
C13_EmittedIffChangedOrNew ==
  PastAttributes =>
    LET keys == Keys(SentAttributes)
        type == cfg.load_balancer_type
        app == type = LoadBalancerTypeEnumApplication
        nlb == type \in {LoadBalancerTypeEnumNetwork, LoadBalancerTypeEnumGateway}
        Due(field) == HasChange(field) \/ isNew
        Sent(key, value) ==
          key \in keys /\ \A a \in {SentAttributes[i] : i \in DOMAIN SentAttributes} :
                            a.Key = key => a.Value = value
    IN /\ (app /\ Due("idle_timeout"))
            <=> Sent("idle_timeout.timeout_seconds", FormatInt(cfg.idle_timeout))
       /\ (app /\ Due("enable_http2"))
            <=> Sent("routing.http2.enabled", FormatBool(cfg.enable_http2))
       /\ (app /\ Due("drop_invalid_header_fields"))
            <=> Sent("routing.http.drop_invalid_header_fields.enabled",
                     FormatBool(cfg.drop_invalid_header_fields))
       /\ (nlb /\ Due("enable_cross_zone_load_balancing"))
            <=> Sent(CrossZoneKey, FormatBool(cfg.enable_cross_zone_load_balancing))
       /\ Due("enable_deletion_protection")
            <=> Sent("deletion_protection.enabled",
                     FormatBool(cfg.enable_deletion_protection))

\* the update chained after the create of an application load balancer with
\* the default settings has sent the idle timeout 60
C13_Witness ==
  /\ op = "Create"
  /\ PastAttributes
  /\ cfg.load_balancer_type = LoadBalancerTypeEnumApplication
  /\ cfg.idle_timeout = 60
  /\ cfg.enable_http2
  /\ ~cfg.enable_deletion_protection
  /\ InSeq(Attribute("idle_timeout.timeout_seconds", <<6, 0>>), SentAttributes)
  /\ InSeq(Attribute("deletion_protection.enabled", "false"), SentAttributes)

\* the queries of waitForNLBNetworkInterfacesToDetach among the calls
WaitQuery == "DescribeNetworkInterfaces(amazon-aws)"

WaitQueries == {i \in DOMAIN calls : calls[i].name = WaitQuery}

LastCall == calls[Len(calls)]

\* C14: once the cleanup wait has issued its first query, every later call is
\* such a query (no detach, no destroy); a query that reports no interface is
\* the last call and ends the wait without error, and the wait ends without
\* error in no other way.
C14_WaitOnlyQueries ==
  op = "Delete" =>
    /\ \A i \in WaitQueries : \A j \in DOMAIN calls : j > i => calls[j].name = WaitQuery
    /\ \A i \in WaitQueries :
         (calls[i].ans = "ok" /\ calls[i].count = 0)
           => (i = Len(calls) /\ pc \in {"d_return", "done"} /\ waitErr = "nil")
    /\ (pc \in {"d_return", "done"} /\ WaitQueries # {} /\ waitErr = "nil")
         => (LastCall.ans = "ok" /\ LastCall.count = 0)

\* the wait has ended without error on the answers 2, 1, 0
C14_Witness ==
  /\ op = "Delete"
  /\ pc = "d_return"
  /\ waitErr = "nil"
  /\ Cardinality(WaitQueries) = 3
  /\ LET n == Len(calls)
     IN /\ calls[n-2].count = 2
        /\ calls[n-1].count = 1
        /\ calls[n].count = 0

\* a step in which the 5 minutes of the wait elapse: the wait leaves its loop
\* without a call
DeadlineElapses ==
  /\ pc = "w_retry"
  /\ ~getLbNameFromArn(id).err
  /\ pc' # pc
  /\ calls' = calls

\* a step that performs the final query, and what the wait returns after it
FinalQuery ==
  /\ pc' = "d_return"
  /\ calls' = Append(calls, calls'[Len(calls')])
  /\ calls'[Len(calls')].name = WaitQuery
  /\ waitErr' = IF calls'[Len(calls')].ans = "err" THEN "Error describing network inferfaces"
                ELSE IF calls'[Len(calls')].count > 0 THEN "Error waiting for ENIs to clean up"
                ELSE "nil"

DeleteSucceedsAfterWait == pc = "d_return" => (pc' = "done" /\ ret' = "nil")

\* C15 (as stated): when the deadline elapses while interfaces remain (the
\* last answer reported some), one final query follows; it ends the wait with
\* the timeout condition when interfaces remain and without error when none
\* does; Delete then returns no error.
C15_FinalQueryOnDeadline ==
  [][/\ (DeadlineElapses /\ retries >= 1) => pc' = "w_final"
     /\ pc = "w_final" => FinalQuery
     /\ DeleteSucceedsAfterWait]_vars

\* C15 (amended): the final query is performed when resource.Retry ends with
\* a timeout error, and only then; it is one query, which ends the wait with
\* the timeout condition when interfaces remain and without error when none
\* does.  When the deadline elapses with another error, the wait returns
\* "Error describing network inferfaces" without a further query.  Delete then
\* returns no error.
C15_FinalQueryOnTimeoutError ==
  [][/\ (DeadlineElapses /\ pc' # "w_final")
          => (pc' = "d_return" /\ waitErr' = "Error describing network inferfaces")
     /\ pc = "w_final" => FinalQuery
     /\ (waitErr' = "Error waiting for ENIs to clean up" /\ waitErr' # waitErr)
          => pc = "w_final"
     /\ DeleteSucceedsAfterWait]_vars

\* the deadline elapsed before any answer, and the final query found an
\* interface
C15_Witness ==
  /\ op = "Delete"
  /\ pc = "d_return"
  /\ retries = 0
  /\ Cardinality(WaitQueries) = 1
  /\ LastCall.count > 0
  /\ waitErr = "Error waiting for ENIs to clean up"

\* the calls of cleanupLBNetworkInterfaces
CleanupCalls(name) == {i \in DOMAIN calls : calls[i].name = name}

\* cleanupLBNetworkInterfaces has returned
PastCleanup == pc \in {"w_retry", "w_final", "d_return", "done"} /\ calls[1].ans = "ok"

\* C18: cleanupLBNetworkInterfaces issues at most one query, one detach and
\* one destroy call, in this order right after DeleteLoadBalancer; the detach
\* follows only a query that found interfaces, the destroy only a successful
\* detach, both for the interfaces found; and once it has returned, a query
\* that found interfaces was followed by the detach and a successful detach by
\* the destroy.
C18_CleanupSinglePass ==
  op = "Delete" =>
    LET query == CleanupCalls("DescribeNetworkInterfaces(amazon-elb)")
        detach == CleanupCalls("DetachNetworkInterface")
        destroy == CleanupCalls("DeleteNetworkInterface")
        found == query = {2} /\ calls[2].ans = "ok" /\ calls[2].count > 0
        detached == detach = {3} /\ calls[3].ans = "ok"
    IN /\ query \subseteq {2}
       /\ detach \subseteq {3}
       /\ destroy \subseteq {4}
       /\ detach # {} => (found /\ calls[3].arg = calls[2].count)
       /\ destroy # {} => (detached /\ calls[4].arg = calls[2].count)
       /\ PastCleanup => /\ found => detach # {}
                         /\ detached => destroy # {}

\* the detach of two interfaces failed and Delete has returned
C18_Witness ==
  /\ op = "Delete"
  /\ pc = "done"
  /\ Len(calls) >= 3
  /\ calls[2].count = 2
  /\ calls[3].name = "DetachNetworkInterface"
  /\ calls[3].ans = "err"
  /\ CleanupCalls("DeleteNetworkInterface") = {}

\* steps in which the identity changes that belong to the beginning and the
\* end of a resource: Create sets it after a create call that returned one
\* record, the importer sets it, and the framework drops it with the state
\* after a Delete that returned no error
IdentitySetByCreate ==
  /\ id = NoId
  /\ op = "Create"
  /\ id' = LoadBalancerArn
  /\ calls'[Len(calls')].name = "CreateLoadBalancer"
  /\ calls'[Len(calls')].ans = "ok"
  /\ calls'[Len(calls')].count = 1

IdentityImported == id = NoId /\ op = "none"

IdentityDroppedAfterDelete == op = "Delete" /\ pc = "done" /\ ret = "nil" /\ id' = NoId

IdentityClearedByRead ==
  /\ pc = "r_describe"
  /\ id' = NoId
  /\ calls'[Len(calls')].name = "DescribeLoadBalancers"
  /\ calls'[Len(calls')].ans = "notfound"
  /\ ret' = "nil"

\* C16 (as stated): the identity is set once, by Create from the record the
\* create call returned (or by the importer), and from then on no operation
\* changes or clears it until a successful Delete ends the resource.
C16_IdentitySetOnceNeverCleared ==
  [][id' # id => (IdentitySetByCreate \/ IdentityImported \/ IdentityDroppedAfterDelete)]_vars

\* C16 (amended): the identity is set once, by Create from the record the
\* create call returned (or by the importer); no operation replaces it by
\* another identity, Update's own steps and Delete never change it, and it is
\* cleared only by a Read (also the one that ends an Update or a Create) whose
\* describe call answers not-found, and by a successful Delete's end.
C16_IdentitySetOnceClearedByReadNotFound ==
  [][id' # id => \/ IdentitySetByCreate
                 \/ IdentityImported
                 \/ IdentityDroppedAfterDelete
                 \/ IdentityClearedByRead]_vars

\* the Read that ends an Update found the load balancer gone and cleared the
\* identity
C16_Witness ==
  /\ op = "Update"
  /\ pc = "done"
  /\ ret = "nil"
  /\ id = NoId
  /\ st.load_balancer_type # ""

\* a handler that ends with a successful Read has returned
ReadSucceeded ==
  op \in {"Create", "Read", "Update"} /\ pc = "done" /\ ret = "nil" /\ id # NoId

\* the resource has been read at least once: its state holds values
HasState == id # NoId /\ st.load_balancer_type # ""

\* exactly one of "subnets" and "subnet_mapping" holds elements
ExactlyOneRepresentation(s) == (s.subnets # {}) # (s.subnet_mapping # {})

\* both hold elements, for the same subnets, one mapping per subnet
BothRepresentations(s) ==
  /\ s.subnets # {}
  /\ {m.subnet_id : m \in s.subnet_mapping} = s.subnets
  /\ Cardinality(s.subnet_mapping) = Cardinality(s.subnets)

\* C17 (as stated): in the values a successful Read has written, and in the
\* state kept from then on, exactly one of the subnet-id set and the
\* subnet-mapping set carries data.
C17_ExactlyOneRepresentation ==
  /\ ReadSucceeded => ExactlyOneRepresentation(d)
  /\ HasState => ExactlyOneRepresentation(st)

\* C17 (amended): in the values a successful Read has written, and in the
\* state kept from then on, both the subnet-id set and the subnet-mapping set
\* carry data, derived from the same availability zones: one mapping per
\* subnet id.
C17_BothRepresentationsAfterRead ==
  /\ ReadSucceeded => BothRepresentations(d)
  /\ HasState => BothRepresentations(st)

\* the state kept after a Read of a load balancer in two subnets
C17_Witness ==
  /\ pc = "idle"
  /\ HasState
  /\ st.subnets = {"subnet-a", "subnet-b"}
  /\ Cardinality(st.subnet_mapping) = 2

\* the identity holds a piece that ends with "loadbalancer", followed by "/"
HasLoadBalancerSegment(arn) ==
  \E i \in 1..(Len(arn) - 1) : arn[i] \in LoadBalancerPieces /\ arn[i+1] = "/"

\* the identity ends with "a/b/c" for three non-empty slash-free pieces
EndsInThreePieces(arn) ==
  \E k \in DOMAIN arn :
    /\ Len(arn) - k = 4
    /\ \A i \in k..Len(arn) : (arn[i] = "/") <=> ((i - k) % 2 = 1)

LastThreePieces(arn) == SubSeq(arn, Len(arn) - 4, Len(arn))

\* "app/my-lb/50dc6c495c0c9188"
ArnSuffix == <<"app", "/", "my-lb", "/", "50dc6c495c0c9188">>

\* what the cleanup of a Delete made of the identity: the name it queried the
\* network interfaces with
ExtractedName == calls[2].arg

FormatError == cleanupErr = "Unexpected ARN format"

\* C19 (as stated): for the well-formed identity the extraction gives
\* "app/my-lb/50dc6c495c0c9188"; for every identity without a "loadbalancer/"
\* segment it fails with the format error.
C19_FormatErrorWithoutLoadBalancerSegment ==
  (op = "Delete" /\ PastCleanup) =>
    /\ id = LoadBalancerArn => (~FormatError /\ ExtractedName = ArnSuffix)
    /\ ~HasLoadBalancerSegment(id) => FormatError

\* C19 (amended): the extraction gives the last three slash-separated pieces
\* of the identity, "app/my-lb/50dc6c495c0c9188" for the well-formed identity
\* (the value Read keeps as arn_suffix); it fails with the format error exactly
\* when the identity does not end in three non-empty pieces, whether or not it
\* holds a "loadbalancer/" segment.
C19_SuffixIsLastThreePieces ==
  /\ (op = "Delete" /\ PastCleanup) =>
       /\ id = LoadBalancerArn => ExtractedName = ArnSuffix
       /\ FormatError <=> ~EndsInThreePieces(id)
       /\ ~FormatError => ExtractedName = LastThreePieces(id)
  /\ ReadSucceeded => d.arn_suffix = ArnSuffix
  /\ HasState => st.arn_suffix = ArnSuffix

\* the identity "app/my-lb/50dc6c495c0c9188", without "loadbalancer/", was
\* accepted
C19_Witness ==
  /\ op = "Delete"
  /\ PastCleanup
  /\ ~HasLoadBalancerSegment(id)
  /\ ~FormatError
  /\ ExtractedName = id

\* the status reads of the polls among the calls
StatusRead == "DescribeLoadBalancers(status)"

StatusReads == {i \in DOMAIN calls : calls[i].name = StatusRead}

PollFailed == pc = "done" /\ ret = "error waiting for Load Balancer to be active"

\* C20: a status read that reports "active" is the last read of its poll and
\* the handler goes on; after a read that reports another status the poll
\* reads again or, when the deadline elapses, the handler returns the poll's
\* error with that read as its last call; the reads are as many as the statuses
\* the poll took, and an Update reaches its final Read only after an "active"
\* read.
C20_PollUntilActive ==
  /\ polls = Cardinality(StatusReads)
  /\ \A i \in StatusReads :
       LET last == i = Len(calls) IN
       /\ calls[i].ans = "active" =>
            IF last THEN pc \notin {"c_poll", "u_poll", "done"}
            ELSE calls[i+1].name # StatusRead
       /\ calls[i].ans = "provisioning" =>
            IF last THEN pc \in {"c_poll", "u_poll"} \/ PollFailed
            ELSE calls[i+1].name = StatusRead
       /\ calls[i].ans = "error" => (last /\ PollFailed)
  /\ (op = "Update" /\ pc \in {"r_describe", "r_tags", "r_attrs"}) =>
       \E i \in StatusReads :
         calls[i].ans = "active" /\ \A j \in StatusReads : j <= i

\* the poll of an Update has succeeded on the statuses provisioning,
\* provisioning, active
C20_Witness ==
  /\ op = "Update"
  /\ pc = "r_describe"
  /\ polls = 3
  /\ LET n == Len(calls)
     IN /\ calls[n-2].ans = "provisioning"
        /\ calls[n-1].ans = "provisioning"
        /\ calls[n].ans = "active"
        /\ StatusReads = {n-2, n-1, n}

\* the poll of Create has reported "active" before call i
ActiveBefore(i) ==
  \E j \in 1..(i - 1) : calls[j].name = StatusRead /\ calls[j].ans = "active"

\* C21: in a Create, every tag, attribute, security-group, subnet or
\* IP-address-type call comes after a status read that reported "active";
\* when the poll of Create fails or its deadline elapses, Create has returned
\* the poll's error, the chained update has not started and issued no call,
\* and the identity is the one the create call returned.
C21_NoUpdateBeforeActive ==
  op = "Create" =>
    /\ \A i \in DOMAIN calls : calls[i].name \in MutatingCalls => ActiveBefore(i)
    /\ updFrom > 0 => ActiveBefore(updFrom + 1)
    /\ (pc = "done" /\ Len(calls) > 0 /\ calls[1].ans = "ok" /\ calls[1].count = 1
          /\ ~ActiveBefore(Len(calls) + 1))
         => /\ PollFailed
            /\ updFrom = 0
            /\ \A i \in DOMAIN calls : i > 1 => calls[i].name = StatusRead
            /\ id = LoadBalancerArn

\* the deadline of the poll of Create elapsed after two reads
C21_Witness ==
  /\ op = "Create"
  /\ PollFailed
  /\ updFrom = 0
  /\ Len(calls) = 3
  /\ calls[3].ans = "provisioning"
  /\ id = LoadBalancerArn

CleanupCallNames ==
  {"DescribeNetworkInterfaces(amazon-elb)", "DetachNetworkInterface", "DeleteNetworkInterface"}

\* waitForNLBNetworkInterfacesToDetach has run: it queried, or it returned
\* the format error of the identity
WaitRan == WaitQueries # {} \/ waitErr = "Unexpected ARN format"

\* C22: Delete's first call is DeleteLoadBalancer; when it fails Delete has
\* returned "Error deleting LB" and issued no other call; when it succeeds the
\* calls of cleanupLBNetworkInterfaces all precede the queries of the wait,
\* the wait has not queried while the cleanup runs, and the wait has run when
\* Delete returns, whatever the cleanup reported.
C22_DeleteErrorStopsCleanupThenWait ==
  (op = "Delete" /\ Len(calls) > 0) =>
    /\ calls[1].name = "DeleteLoadBalancer"
    /\ calls[1].ans # "ok" => (Len(calls) = 1 /\ pc = "done" /\ ret = "Error deleting LB")
    /\ \A i, j \in DOMAIN calls :
         (calls[i].name \in CleanupCallNames /\ calls[j].name = WaitQuery) => i < j
    /\ pc \in {"cl_describe", "cl_detach", "cl_delete"} => ~WaitRan
    /\ (pc \in {"d_return", "done"} /\ calls[1].ans = "ok") => WaitRan

\* the query of the cleanup failed and the wait has queried all the same
C22_Witness ==
  /\ op = "Delete"
  /\ pc = "done"
  /\ cleanupErr = "DescribeNetworkInterfaces"
  /\ calls[2].ans = "err"
  /\ WaitQueries = {3}

\* the wait of a Delete has returned after its loop (the identity had a name)
WaitEnded == op = "Delete" /\ pc = "d_return" /\ ~getLbNameFromArn(id).err

\* the wait's last query (of the loop or the final one) was its last step
EndedByQuery == LastCall.name = WaitQuery /\ Cardinality(WaitQueries) = retries + 1

EndedByEmptyQuery == EndedByQuery /\ LastCall.ans = "ok" /\ LastCall.count = 0 /\ waitErr = "nil"

EndedByQueryError ==
  EndedByQuery /\ LastCall.ans = "err" /\ waitErr = "Error describing network inferfaces"

EndedByFinalQuery ==
  /\ EndedByQuery
  /\ LastCall.ans = "ok"
  /\ LastCall.count > 0
  /\ waitErr = "Error waiting for ENIs to clean up"

\* the deadline elapsed after a query that reported interfaces and the wait
\* returned that query's error: every query is one of the loop
EndedByDeadlineAlone ==
  /\ retries >= 1
  /\ Cardinality(WaitQueries) = retries
  /\ LastCall.name = WaitQuery
  /\ LastCall.count > 0
  /\ waitErr = "Error describing network inferfaces"

DeleteReturns == (op = "Delete") ~> (pc = "done")

\* C23 (as stated): every Delete that was invoked returns, and its wait ends
\* by an empty query, by a query error, or by the deadline followed by one
\* final query.
C23_DeleteTerminatesThreeEndings ==
  /\ DeleteReturns
  /\ [](WaitEnded => (EndedByEmptyQuery \/ EndedByQueryError \/ EndedByFinalQuery))

\* C23 (amended): every Delete that was invoked returns, and its wait ends by
\* an empty query, by a query error, by the deadline followed by one final
\* query, or by the deadline alone, with the error of the last query that
\* reported interfaces.
C23_DeleteTerminates ==
  /\ DeleteReturns
  /\ [](WaitEnded => \/ EndedByEmptyQuery
                     \/ EndedByQueryError
                     \/ EndedByFinalQuery
                     \/ EndedByDeadlineAlone)

\* a Delete has returned although every query of its wait, three or more,
\* reported interfaces
C23_Witness ==
  /\ op = "Delete"
  /\ pc = "done"
  /\ ret = "nil"
  /\ Cardinality(WaitQueries) >= 3
  /\ \A i \in WaitQueries : calls[i].ans = "ok" /\ calls[i].count > 0

\* the ModifyLoadBalancerAttributes requests of the Update
UpdateAttributeRequests ==
  {i \in DOMAIN UpdateCalls : UpdateCalls[i].name = "ModifyLoadBalancerAttributes"}

\* no attribute is to be sent: the resource is not new and no attribute field
\* that applies to its type changed
NothingToSend ==
  LET type == cfg.load_balancer_type IN
  /\ ~isNew
  /\ ~HasChange("access_logs")
  /\ ~HasChange("enable_deletion_protection")
  /\ type = LoadBalancerTypeEnumApplication =>
       /\ ~HasChange("idle_timeout")
       /\ ~HasChange("enable_http2")
       /\ ~HasChange("drop_invalid_header_fields")
  /\ type \in {LoadBalancerTypeEnumNetwork, LoadBalancerTypeEnumGateway} =>
       ~HasChange("enable_cross_zone_load_balancing")

\* C24: once Update has built its attributes, it has sent access-log
\* instructions if and only if "access_logs" changed (none for a new resource
\* declared without the block); it has issued at most one
\* ModifyLoadBalancerAttributes request, which carries at least one attribute,
\* and none exactly when there is nothing to send.
C24_AccessLogsOnlyOnChange ==
  PastAttributes =>
    /\ (Len(AccessLogInstructions(SentAttributes)) > 0) <=> HasChange("access_logs")
    /\ (isNew /\ cfg.access_logs = << >>) => Keys(SentAttributes) \cap AccessLogKeys = {}
    /\ Cardinality(UpdateAttributeRequests) <= 1
    /\ \A i \in UpdateAttributeRequests : Len(UpdateCalls[i].arg) > 0
    /\ (UpdateAttributeRequests = {}) <=> NothingToSend

\* the update chained after the create of a load balancer declared without
\* access-log block has sent attributes, none of them about access logs
C24_Witness ==
  /\ op = "Create"
  /\ PastAttributes
  /\ cfg.access_logs = << >>
  /\ Len(SentAttributes) > 0
  /\ Keys(SentAttributes) \cap AccessLogKeys = {}

====
